---- MODULE Spec2Model ----
(***************************************************************************)
(* A model of pkg/sql/schemachanger/scplan/internal/opgen/op_funcs.go:     *)
(* the target index (targetsWithElementMap), the event builders that read  *)
(* it, and the reflection-based compiler and dispatcher of opgen           *)
(* functions.                                                              *)
(*                                                                         *)
(* Storage is modelled explicitly: heap maps an address to the value kept  *)
(* there, so that a copy (protoutil.Clone) and an alias are different      *)
(* things.  Positions are 0-based as in Go; Targets[i] of the Go code is   *)
(* At(Targets, i) here.                                                    *)
(***************************************************************************)
EXTENDS Integers, Sequences, FiniteSets, TLC

VARIABLES
  cs,      \* the planner's CurrentState: Targets and InRollback
  heap,    \* the storage of the TargetState and of the value last returned
  md,      \* the targetsWithElementMap built from cs
  ret,     \* the outcome of the last builder call
  last,    \* the kind of the last step taken
  fns,     \* the functions handed to makeOpsFunc
  group,   \* what makeOpsFunc returned for fns
  out,     \* what the last call of the compiled opsFunc returned
  cand,    \* the candidate handed to checkOpFunc
  checked, \* what checkOpFunc returned for cand
  inv      \* the calls of the compiled opsFunc in progress, one per planning invocation

vars == <<cs, heap, md, ret, last, fns, group, out, cand, checked, inv>>

----------------------------------------------------------------------------
(* Bounds of the model.                                                    *)

MaxTargets == 3       \* targets of a CurrentState handed to makeTargetsWithElementMap
MaxPlanTargets == 2   \* targets of a CurrentState whose index the builders read
NumElements == 2      \* distinct element pointers
MaxFns == 3           \* functions handed to makeOpsFunc
MaxArgs == 3          \* parameters of a candidate function
MaxResults == 2       \* results of a candidate function
NumInvocations == 2   \* planning invocations that share a compiled group
MaxConcFns == 2       \* functions of a group dispatched concurrently

----------------------------------------------------------------------------
(* The data consumed from scpb: elements (pointers, compared by identity), *)
(* target statuses, statements.                                            *)

Elements == 1..NumElements

Statuses == {"ABSENT", "PUBLIC"}

\* A redacted statement is a sequence of tokens; "<" and ">" stand for the
\* redaction markers that enclose sensitive parts.
Statements ==
  << [RedactedStatement |-> <<"DROP TABLE ", "<", "t", ">">>, StatementTag |-> "DROP TABLE"],
     [RedactedStatement |-> <<"ALTER TABLE ", "<", "u", ">", " ADD ", "<", "c", ">">>,
      StatementTag |-> "ALTER TABLE"] >>

StatementIDs == 0..(Len(Statements) - 1)

UserNames == {"root", "alice"}
ElementVersions == {"v1", "v2"}

\* Targets[i], Statements[i] of the Go code: 0-based indexing of a slice.
At(s, i) == s[i + 1]

InRange(s, i) == i >= 0 /\ i < Len(s)

\* Addresses of the storage the TargetState owns, and of cloned storage.
MetaAddr(i) == <<"meta", i>>
AuthAddr == <<"auth", 0>>
ElemAddr(e) == <<"elem", e>>
IsSourceAddr(a) == a[1] \in {"meta", "auth", "elem"}

\* redact.RedactableString.StripMarkers: the text with the markers removed.
RECURSIVE StripMarkers(_)
StripMarkers(s) ==
  IF s = <<>> THEN <<>>
  ELSE IF Head(s) \in {"<", ">"} THEN StripMarkers(Tail(s))
       ELSE <<Head(s)>> \o StripMarkers(Tail(s))

\* protoutil.Clone(&x): fresh storage holding a deep copy of the value at a.
\* Cloned storage is numbered in the order of the clones of one call.
CloneAlias(h, a) == [addr |-> a, heap |-> h]

Clone(h, a) ==
  LET n == <<"clone", Cardinality({x \in DOMAIN h : x[1] = "clone"}) + 1>>
  IN  [addr |-> n, heap |-> (n :> h[a]) @@ h]

----------------------------------------------------------------------------
(* Results of a call: a returned value or a panic.                         *)

NoValue == [kind |-> "none"]
NoPanic == [class |-> "none"]

AssertionFailed(msg, e) == [class |-> "AssertionFailed", msg |-> msg, element |-> e]
RuntimePanic(msg) == [class |-> "runtime", msg |-> msg]

Returned(v, h) == [panic |-> NoPanic, value |-> v, heap |-> h]
Panicked(p, h) == [panic |-> p, value |-> NoValue, heap |-> h]

----------------------------------------------------------------------------
(* makeTargetsWithElementMap                                                *)

EmptyMap == [e \in {} |-> 0]

\* The loop of makeTargetsWithElementMap over cs.Targets, from position i
\* with the map m built so far.
RECURSIVE ElementMapLoop(_, _, _)
ElementMapLoopAdjacentOnly(Targets, i, m) ==
  IF i >= Len(Targets) THEN [panic |-> NoPanic, elementToTarget |-> m]
  ELSE LET e == At(Targets, i).Element
       IN  IF e \in DOMAIN m /\ m[e] = i - 1
           THEN [panic |-> AssertionFailed("duplicate targets", e), elementToTarget |-> m]
           ELSE ElementMapLoop(Targets, i + 1,
                               [x \in DOMAIN m \cup {e} |-> IF x = e THEN i ELSE m[x]])

ElementMapLoop(Targets, i, m) ==
  IF i >= Len(Targets) THEN [panic |-> NoPanic, elementToTarget |-> m]
  ELSE LET e == At(Targets, i).Element
       IN  IF e \in DOMAIN m
           THEN [panic |-> AssertionFailed("duplicate targets", e), elementToTarget |-> m]
           ELSE ElementMapLoop(Targets, i + 1, (e :> i) @@ m)

makeTargetsWithElementMapOffByOne(c) ==
  LET r == ElementMapLoop(c.Targets, 0, EmptyMap)
  IN  [status |-> IF r.panic = NoPanic THEN "built" ELSE "panicked",
       panic |-> r.panic,
       elementToTarget |-> IF r.panic = NoPanic
                           THEN [e \in DOMAIN r.elementToTarget |->
                                   IF r.elementToTarget[e] > 0
                                   THEN r.elementToTarget[e] - 1 ELSE 0]
                           ELSE EmptyMap,
       InRollback |-> c.InRollback]

\* The index, or the panic that replaces it: a panicking call returns no md.
makeTargetsWithElementMap(c) ==
  LET r == ElementMapLoop(c.Targets, 0, EmptyMap)
  IN  [status |-> IF r.panic = NoPanic THEN "built" ELSE "panicked",
       panic |-> r.panic,
       elementToTarget |-> IF r.panic = NoPanic THEN r.elementToTarget ELSE EmptyMap,
       InRollback |-> c.InRollback]

\* md.elementToTarget[e] with Go's map semantics: the zero value for a
\* missing key.
Lookup(m, e) ==
  IF e \in DOMAIN m.elementToTarget
  THEN [idx |-> m.elementToTarget[e], ok |-> TRUE]
  ELSE [idx |-> 0, ok |-> FALSE]

----------------------------------------------------------------------------
(* The builders.  Each takes the heap, the targets (md.Targets, the slice  *)
(* md shares with cs), the index and the element, and yields the returned  *)
(* value or the panic, with the heap after the call.                       *)

\* The EventBase literal of newLogEventBase for the target t.
EventBaseOf(h, t) ==
  LET c1 == Clone(h, t.Metadata)
      c2 == Clone(c1.heap, AuthAddr)
      stmt == At(Statements, h[t.Metadata].StatementID)
  IN  Returned([kind |-> "EventBase",
                TargetMetadata |-> c1.addr,
                Authorization |-> c2.addr,
                Statement |-> stmt.RedactedStatement,
                StatementTag |-> stmt.StatementTag], c2.heap)

newLogEventBaseNoCheck(h, Targets, m, e) ==
  LET l == Lookup(m, e)
  IN  IF ~InRange(Targets, l.idx) THEN Panicked(RuntimePanic("index out of range"), h)
      ELSE EventBaseOf(h, At(Targets, l.idx))

newLogEventBaseFirstTarget(h, Targets, m, e) ==
  LET l == Lookup(m, e)
  IN  IF ~l.ok
      THEN Panicked(AssertionFailed("could not find element in target state", e), h)
      ELSE EventBaseOf(h, At(Targets, 0))

newLogEventBase(h, Targets, m, e) ==
  LET l == Lookup(m, e)
  IN  IF ~l.ok
      THEN Panicked(AssertionFailed("could not find element in target state", e), h)
      ELSE EventBaseOf(h, At(Targets, l.idx))

newLogEventOp(h, Targets, m, e) ==
  LET l == Lookup(m, e)
  IN  IF ~l.ok
      THEN Panicked(AssertionFailed("could not find element in target state", e), h)
      ELSE
      LET t == At(Targets, l.idx)
          b == newLogEventBase(h, Targets, m, e)
      IN  IF b.panic # NoPanic THEN b
          ELSE LET c3 == Clone(b.heap, ElemAddr(t.Element))
               IN  Returned([kind |-> "LogEvent",
                             EventBase |-> b.value,
                             Element |-> c3.addr,
                             TargetStatus |-> t.TargetStatus], c3.heap)

\* No ok check: a missing element reads position 0, and an empty Targets
\* makes that read an index-out-of-range runtime panic.
statementForDropJob(h, Targets, m, e) ==
  LET l == Lookup(m, e)
  IN  IF ~InRange(Targets, l.idx) THEN Panicked(RuntimePanic("index out of range"), h)
      ELSE
      LET stmtID == h[At(Targets, l.idx).Metadata].StatementID
      IN  Returned([kind |-> "StatementForDropJob",
                    Statement |-> StripMarkers(At(Statements, stmtID).RedactedStatement),
                    StatementID |-> stmtID,
                    Rollback |-> m.InRollback], h)

----------------------------------------------------------------------------
(* One planning pass: the planner's CurrentState, the index built from it, *)
(* calls of the builders, and writes to the TargetState by its owner.      *)

NoCall == [fn |-> "none", arg |-> 0, panic |-> NoPanic, value |-> NoValue]
NoIndex == [status |-> "unbuilt", panic |-> NoPanic, elementToTarget |-> EmptyMap,
            InRollback |-> FALSE]

\* CurrentStates with n targets over any elements and statuses; target i
\* keeps its metadata at MetaAddr(i).
TargetSeqs(n) ==
  { [i \in 1..n |-> [Element |-> el[i], TargetStatus |-> st[i], Metadata |-> MetaAddr(i - 1)]] :
      el \in [1..n -> Elements], st \in [1..n -> Statuses] }

\* The same with the status fixed by the position, alternating.
PlanTargetSeqs(n) ==
  { [i \in 1..n |-> [Element |-> el[i],
                     TargetStatus |-> IF i % 2 = 1 THEN "ABSENT" ELSE "PUBLIC",
                     Metadata |-> MetaAddr(i - 1)]] :
      el \in [1..n -> Elements] }

InitHeap(n) ==
  [a \in {MetaAddr(i) : i \in 0..(n - 1)} \cup {AuthAddr} \cup {ElemAddr(e) : e \in Elements} |->
     IF a[1] = "meta" THEN [StatementID |-> 0]
     ELSE IF a[1] = "auth" THEN [UserName |-> "root"]
     ELSE [Version |-> "v1"]]

SourceHeap(h) == [a \in {x \in DOMAIN h : IsSourceAddr(x)} |-> h[a]]

IdleIdx ==
  /\ cs = [Targets |-> <<>>, InRollback |-> FALSE]
  /\ heap = InitHeap(0)
  /\ md = NoIndex
  /\ ret = NoCall
  /\ last = "init"

IdleOps ==
  /\ fns = <<>>
  /\ group = [status |-> "none"]   \* NoGroup
  /\ out = [status |-> "none"]     \* NoOut

IdleCheck ==
  /\ cand = [kind |-> "none"]
  /\ checked = [status |-> "none"]

\* No call of an opsFunc in progress.
Invocations == 1..NumInvocations
IdleCall == [pc |-> "idle", element |-> 0, md |-> 0, i |-> 0, ret |-> <<>>]
IdleConc == inv = [p \in Invocations |-> IdleCall]

InitIdx(maxN, plan) ==
  /\ \E n \in 0..maxN :
       /\ \E ts \in (IF plan THEN PlanTargetSeqs(n) ELSE TargetSeqs(n)), rb \in BOOLEAN :
            cs = [Targets |-> ts, InRollback |-> rb]
       /\ heap = InitHeap(n)
  /\ md = NoIndex
  /\ ret = NoCall
  /\ last = "init"

MakeTargetsWithElementMap ==
  /\ md.status = "unbuilt"
  /\ md' = makeTargetsWithElementMap(cs)
  /\ last' = "build"
  /\ UNCHANGED <<cs, heap, ret, fns, group, out, cand, checked, inv>>

\* The pass goes on until a call panics.
Callable == md.status = "built" /\ ret.panic = NoPanic

\* A builder call: r is what the builder yields on element e from the
\* storage of the TargetState; the storage of the value returned before is
\* no longer referenced.
Call(name, e, r) ==
  /\ heap' = r.heap
  /\ ret' = [fn |-> name, arg |-> e, panic |-> r.panic, value |-> r.value]
  /\ last' = "call"
  /\ UNCHANGED <<cs, md, fns, group, out, cand, checked, inv>>

NewLogEventBase ==
  /\ Callable
  /\ \E e \in Elements :
       Call("newLogEventBase", e, newLogEventBase(SourceHeap(heap), cs.Targets, md, e))

NewLogEventOp ==
  /\ Callable
  /\ \E e \in Elements :
       Call("newLogEventOp", e, newLogEventOp(SourceHeap(heap), cs.Targets, md, e))

StatementForDropJob ==
  /\ Callable
  /\ \E e \in Elements :
       Call("statementForDropJob", e, statementForDropJob(SourceHeap(heap), cs.Targets, md, e))

\* The owner of the TargetState writes one of its records in place.
Mutate(a, v) ==
  /\ Callable
  /\ a \in DOMAIN heap /\ heap[a] # v
  /\ heap' = [heap EXCEPT ![a] = v]
  /\ last' = "mutate"
  /\ UNCHANGED <<cs, md, ret, fns, group, out, cand, checked, inv>>

MutateMetadata ==
  \E i \in 0..(Len(cs.Targets) - 1), sid \in StatementIDs :
    Mutate(MetaAddr(i), [StatementID |-> sid])

MutateAuthorization ==
  \E u \in UserNames : Mutate(AuthAddr, [UserName |-> u])

MutateElement ==
  \E e \in Elements, v \in ElementVersions : Mutate(ElemAddr(e), [Version |-> v])

NextIdx ==
  \/ MakeTargetsWithElementMap
  \/ NewLogEventBase
  \/ NewLogEventOp
  \/ StatementForDropJob
  \/ MutateMetadata
  \/ MutateAuthorization
  \/ MutateElement

\* Planning passes: the index is built and the builders read it.
Init == InitIdx(MaxPlanTargets, TRUE) /\ IdleOps /\ IdleCheck /\ IdleConc

Next == NextIdx

Spec == Init /\ [][Next]_vars

\* makeTargetsWithElementMap applied to every CurrentState within the bounds.
InitIndex == InitIdx(MaxTargets, FALSE) /\ IdleOps /\ IdleCheck /\ IdleConc

NextIndex == MakeTargetsWithElementMap

SpecIndex == InitIndex /\ [][NextIndex]_vars

----------------------------------------------------------------------------
(* checkOpFunc and makeOpsFunc.  A candidate is described by what reflect  *)
(* sees of it: its kind, its parameter types, its result types; a function *)
(* also by the elements for which it returns nil.                          *)

ArgTypes == {"el", "otherEl", "md"}   \* el: reflect.TypeOf(el); md: *targetsWithElementMap

Categories == {"MutationOp", "ValidationOp", "BackfillOp"}
Capabilities == {"Op"} \cup Categories

\* A result type: whether it is a pointer, and the interfaces it implements.
OutTypes == [ptr : BOOLEAN, impl : SUBSET Capabilities]
ErrorType == [ptr |-> FALSE, impl |-> {}]

ArgSeqs == UNION {[1..n -> ArgTypes] : n \in 0..MaxArgs}
OutSeqs == {<<>>} \cup
           {<<t>> \o [i \in 1..k |-> ErrorType] : t \in OutTypes, k \in 0..(MaxResults - 1)}

Func(in, outs, nilOn) == [kind |-> "func", in |-> in, out |-> outs, nilOn |-> nilOn]
NotAFunc == [kind |-> "struct", in |-> <<>>, out |-> <<>>, nilOn |-> {}]
NilValue == [kind |-> "nil", in |-> <<>>, out |-> <<>>, nilOn |-> {}]

FnUniverse == {NotAFunc, NilValue} \cup {Func(in, outs, {}) : in \in ArgSeqs, outs \in OutSeqs}

ZeroType == "0"   \* the zero scop.Type
NoError == [class |-> "nil"]
Errorf(msg) == [class |-> "error", msg |-> msg]
AssertionFailedf(msg) == [class |-> "AssertionFailed", msg |-> msg]

CheckResult(typ, err, panic) == [typ |-> typ, err |-> err, panic |-> panic]

\* The switch of checkOpFunc over the interfaces the result type implements.
OpTypeOfBackfillFirst(impl) ==
  IF "BackfillOp" \in impl THEN CheckResult("BackfillType", NoError, NoPanic)
  ELSE IF "MutationOp" \in impl THEN CheckResult("MutationType", NoError, NoPanic)
  ELSE IF "ValidationOp" \in impl THEN CheckResult("ValidationType", NoError, NoPanic)
  ELSE CheckResult(ZeroType, AssertionFailedf("does not conform to any known type"), NoPanic)

OpTypeOfDefaultPanics(impl) ==
  IF "MutationOp" \in impl THEN CheckResult("MutationType", NoError, NoPanic)
  ELSE IF "ValidationOp" \in impl THEN CheckResult("ValidationType", NoError, NoPanic)
  ELSE IF "BackfillOp" \in impl THEN CheckResult("BackfillType", NoError, NoPanic)
  ELSE CheckResult(ZeroType, NoError,
                   [class |-> "AssertionFailed", msg |-> "does not conform to any known type"])

OpTypeOf(impl) ==
  IF "MutationOp" \in impl THEN CheckResult("MutationType", NoError, NoPanic)
  ELSE IF "ValidationOp" \in impl THEN CheckResult("ValidationType", NoError, NoPanic)
  ELSE IF "BackfillOp" \in impl THEN CheckResult("BackfillType", NoError, NoPanic)
  ELSE CheckResult(ZeroType, AssertionFailedf("does not conform to any known type"), NoPanic)

\* reflect.ValueOf(nil) is the zero Value, and Type() of it panics.
checkOpFunc(fn) ==
  IF fn.kind = "nil"
  THEN CheckResult(ZeroType, NoError, RuntimePanic("reflect: call of Value.Type on zero Value"))
  ELSE IF fn.kind # "func" THEN CheckResult(ZeroType, Errorf("expected func"), NoPanic)
  ELSE IF /\ ~(Len(fn.in) = 1 /\ fn.in[1] = "el")
          /\ ~(Len(fn.in) = 2 /\ fn.in[1] = "el" /\ fn.in[2] = "md")
  THEN CheckResult(ZeroType, Errorf("expected a func with one argument of the element type"),
                   NoPanic)
  ELSE IF Len(fn.out) # 1
  THEN CheckResult(ZeroType, Errorf("expected one return value of a pointer type"), NoPanic)
  ELSE IF ~fn.out[1].ptr \/ "Op" \notin fn.out[1].impl
  THEN CheckResult(ZeroType, Errorf("expected one return value of a pointer type"), NoPanic)
  ELSE OpTypeOf(fn.out[1].impl)

NilOpsFunc == [nil |-> TRUE, funcValues |-> <<>>]
OpsFuncOf(funcValues) == [nil |-> FALSE, funcValues |-> funcValues]

GroupResult(f, typ, err, panic) ==
  [status |-> IF panic = NoPanic THEN "returned" ELSE "panicked",
   opsFunc |-> f, typ |-> typ, err |-> err, panic |-> panic]

\* The loop of makeOpsFunc from the i-th function (1-based) with the opType
\* and funcValues it has so far, and the return that follows it.
RECURSIVE MakeOpsLoop(_, _, _, _)
MakeOpsLoopNoConflictCheck(fs, i, opType, funcValues) ==
  IF i > Len(fs) THEN GroupResult(OpsFuncOf(funcValues), opType, NoError, NoPanic)
  ELSE LET c == checkOpFunc(fs[i])
       IN  IF c.panic # NoPanic THEN GroupResult(NilOpsFunc, ZeroType, NoError, c.panic)
           ELSE IF c.err # NoError THEN GroupResult(NilOpsFunc, ZeroType, c.err, NoPanic)
           ELSE MakeOpsLoop(fs, i + 1, c.typ, Append(funcValues, fs[i]))

\* The first error checkOpFunc gives for a function of fs after position i.
LaterCheckError(fs, i) ==
  LET bad == {j \in (i + 1)..Len(fs) : checkOpFunc(fs[j]).panic = NoPanic
                                        /\ checkOpFunc(fs[j]).err # NoError}
  IN  IF bad = {} THEN NoError
      ELSE checkOpFunc(fs[CHOOSE j \in bad : \A x \in bad : j <= x]).err

MakeOpsLoopSignaturesFirst(fs, i, opType, funcValues) ==
  IF i > Len(fs) THEN GroupResult(OpsFuncOf(funcValues), opType, NoError, NoPanic)
  ELSE LET c == checkOpFunc(fs[i])
       IN  IF c.panic # NoPanic THEN GroupResult(NilOpsFunc, ZeroType, NoError, c.panic)
           ELSE IF c.err # NoError THEN GroupResult(NilOpsFunc, ZeroType, c.err, NoPanic)
           ELSE IF Len(funcValues) > 0 /\ c.typ # opType
           THEN GroupResult(NilOpsFunc, ZeroType,
                            IF LaterCheckError(fs, i) # NoError THEN LaterCheckError(fs, i)
                            ELSE Errorf("conflicting operation types"), NoPanic)
           ELSE MakeOpsLoop(fs, i + 1, c.typ, Append(funcValues, fs[i]))

MakeOpsLoop(fs, i, opType, funcValues) ==
  IF i > Len(fs) THEN GroupResult(OpsFuncOf(funcValues), opType, NoError, NoPanic)
  ELSE LET c == checkOpFunc(fs[i])
       IN  IF c.panic # NoPanic THEN GroupResult(NilOpsFunc, ZeroType, NoError, c.panic)
           ELSE IF c.err # NoError THEN GroupResult(NilOpsFunc, ZeroType, c.err, NoPanic)
           ELSE IF Len(funcValues) > 0 /\ c.typ # opType
           THEN GroupResult(NilOpsFunc, ZeroType, Errorf("conflicting operation types"), NoPanic)
           ELSE MakeOpsLoop(fs, i + 1, c.typ, Append(funcValues, fs[i]))

makeOpsFunc(fs) == MakeOpsLoop(fs, 1, ZeroType, <<>>)

\* What a function returns when called: nil, or the operation it makes for
\* the element from the arguments it was given.
NilOp == [nil |-> TRUE]
FnCall(fn, args) ==
  IF args[1] \in fn.nilOn THEN NilOp
  ELSE [nil |-> FALSE, madeBy |-> fn, element |-> args[1], withMeta |-> Len(args) = 2,
        meta |-> Tail(args)]

\* The loop of the closure makeOpsFunc returns, from the i-th function
\* (1-based): ops is ret, calls the calls made so far.
RECURSIVE OpsLoop(_, _, _, _, _)
OpsLoopStopsAtNil(funcValues, i, element, ops, calls) ==
  IF i > Len(funcValues) THEN [ops |-> ops, calls |-> calls]
  ELSE LET fn == funcValues[i]
           args == IF Len(fn.in) = 1 THEN <<element>> ELSE <<element, "md">>
           o == FnCall(fn, args)
       IN  IF o.nil THEN [ops |-> ops, calls |-> Append(calls, [fn |-> i, args |-> args])]
           ELSE OpsLoop(funcValues, i + 1, element, Append(ops, o),
                        Append(calls, [fn |-> i, args |-> args]))

OpsLoop(funcValues, i, element, ops, calls) ==
  IF i > Len(funcValues) THEN [ops |-> ops, calls |-> calls]
  ELSE LET fn == funcValues[i]
           args == IF Len(fn.in) = 1 THEN <<element>> ELSE <<element, "md">>
           o == FnCall(fn, args)
       IN  OpsLoop(funcValues, i + 1, element,
                   IF o.nil THEN ops ELSE Append(ops, o),
                   Append(calls, [fn |-> i, args |-> args]))

opsFunc(f, element) == OpsLoop(f.funcValues, 1, element, <<>>, <<>>)

----------------------------------------------------------------------------
(* Compiling a group and dispatching on it.                                *)

\* The sets of elements a function of a group returns nil for.
NilSets == {{}, {1}}

Ptr(impl) == [ptr |-> TRUE, impl |-> impl]

\* The functions groups are compiled from: of every category, of both
\* shapes, implementing one category, two or none, and candidates that are
\* no opgen functions at all.
GroupFns ==
  {Func(<<"el">>, <<Ptr({"Op", c})>>, n) : c \in Categories, n \in NilSets}
  \cup {Func(<<"el", "md">>, <<Ptr({"Op", "MutationOp"})>>, n) : n \in NilSets}
  \cup {Func(<<"el">>, <<Ptr({"Op", "MutationOp", "ValidationOp"})>>, {}),
        Func(<<"el", "md">>, <<Ptr({"Op"})>>, {}),
        Func(<<"otherEl">>, <<Ptr({"Op", "MutationOp"})>>, {}),
        NotAFunc, NilValue}

FnLists == UNION {[1..n -> GroupFns] : n \in 0..MaxFns}

NoGroup == [status |-> "none"]
NoOut == [status |-> "none"]

InitOps ==
  /\ fns \in FnLists
  /\ group = NoGroup
  /\ out = NoOut
  /\ IdleIdx /\ IdleCheck /\ IdleConc

MakeOpsFunc ==
  /\ group.status = "none"
  /\ group' = makeOpsFunc(fns)
  /\ UNCHANGED <<fns, out, cs, heap, md, ret, last, cand, checked, inv>>

Dispatch ==
  /\ group.status = "returned" /\ ~group.opsFunc.nil
  /\ \E e \in Elements :
       LET r == opsFunc(group.opsFunc, e)
       IN  out' = [status |-> "returned", element |-> e, ops |-> r.ops, calls |-> r.calls]
  /\ UNCHANGED <<fns, group, cs, heap, md, ret, last, cand, checked, inv>>

NextOps == MakeOpsFunc \/ Dispatch

SpecOps == InitOps /\ [][NextOps]_vars

\* checkOpFunc applied to every candidate within the bounds.
InitCheck ==
  /\ cand \in FnUniverse
  /\ checked = [status |-> "none"]
  /\ IdleIdx /\ IdleOps /\ IdleConc

CheckOpFunc ==
  /\ checked.status = "none"
  /\ LET c == checkOpFunc(cand)
     IN  checked' = [status |-> "done", typ |-> c.typ, err |-> c.err, panic |-> c.panic]
  /\ UNCHANGED <<cand, cs, heap, md, ret, last, fns, group, out, inv>>

NextCheck == CheckOpFunc

SpecCheck == InitCheck /\ [][NextCheck]_vars

----------------------------------------------------------------------------
(* One compiled group dispatched by several planning invocations at once.  *)
(* Each invocation calls the opsFunc with its own index; the calls advance *)
(* one function call at a time, in any interleaving.  The closure's ret,   *)
(* in and inWithMeta are locals of a call; funcValues is captured and      *)
(* shared by all calls.                                                    *)

\* Valid functions of one category: of both shapes, one returning nil for
\* element 1.
ConcFns ==
  {Func(<<"el">>, <<Ptr({"Op", "MutationOp"})>>, n) : n \in NilSets}
  \cup {Func(<<"el", "md">>, <<Ptr({"Op", "MutationOp"})>>, {})}

ConcFnLists == UNION {[1..n -> ConcFns] : n \in 0..MaxConcFns}

InitConc ==
  /\ fns \in ConcFnLists
  /\ group = NoGroup
  /\ out = NoOut
  /\ IdleIdx /\ IdleCheck /\ IdleConc

\* One iteration of the closure's loop in the call l: the i-th function is
\* called with the call's element (and index) and a non-nil result is
\* appended to the call's ret.  g is the group, which the iteration reads.
OpsIterConsumesFuncValues(g, l) ==
  LET fn == Head(g.opsFunc.funcValues)
      args == IF Len(fn.in) = 1 THEN <<l.element>> ELSE <<l.element, l.md>>
      o == FnCall(fn, args)
  IN  [group |-> [g EXCEPT !.opsFunc.funcValues = Tail(@)],
       local |-> [l EXCEPT !.ret = IF o.nil THEN @ ELSE Append(@, o)]]

OpsIter(g, l) ==
  LET fn == g.opsFunc.funcValues[l.i]
      args == IF Len(fn.in) = 1 THEN <<l.element>> ELSE <<l.element, l.md>>
      o == FnCall(fn, args)
  IN  [group |-> g,
       local |-> [l EXCEPT !.i = @ + 1, !.ret = IF o.nil THEN @ ELSE Append(@, o)]]

\* Invocation p calls the opsFunc on an element with its own index.
BeginDispatch ==
  /\ group.status = "returned" /\ ~group.opsFunc.nil
  /\ \E p \in Invocations, e \in Elements :
       /\ inv[p].pc \in {"idle", "done"}
       /\ inv' = [inv EXCEPT ![p] = [pc |-> "running", element |-> e, md |-> p,
                                     i |-> 1, ret |-> <<>>]]
  /\ UNCHANGED <<fns, group, out, cs, heap, md, ret, last, cand, checked>>

DispatchIter ==
  /\ group.status = "returned"
  /\ \E p \in Invocations :
       /\ inv[p].pc = "running" /\ inv[p].i <= Len(group.opsFunc.funcValues)
       /\ LET r == OpsIter(group, inv[p])
          IN  /\ group' = r.group
              /\ inv' = [inv EXCEPT ![p] = r.local]
  /\ UNCHANGED <<fns, out, cs, heap, md, ret, last, cand, checked>>

DispatchReturn ==
  /\ group.status = "returned"
  /\ \E p \in Invocations :
       /\ inv[p].pc = "running" /\ inv[p].i > Len(group.opsFunc.funcValues)
       /\ inv' = [inv EXCEPT ![p].pc = "done"]
  /\ UNCHANGED <<fns, group, out, cs, heap, md, ret, last, cand, checked>>

NextConc == MakeOpsFunc \/ BeginDispatch \/ DispatchIter \/ DispatchReturn

SpecConc == InitConc /\ [][NextConc]_vars

----------------------------------------------------------------------------
(* Properties of the target index.                                         *)

TargetElements == {cs.Targets[i].Element : i \in 1..Len(cs.Targets)}

PairwiseDistinct ==
  \A i, j \in 1..Len(cs.Targets) : i # j => cs.Targets[i].Element # cs.Targets[j].Element

\* The position (0-based) of the only target of element e.
PositionOf(e) == CHOOSE i \in 0..(Len(cs.Targets) - 1) : At(cs.Targets, i).Element = e

Present(e) == e \in TargetElements

\* C1: on a CurrentState whose targets reference pairwise distinct elements
\* makeTargetsWithElementMap returns without a panic, elementToTarget maps the
\* element of every position i to i, and the map has one entry per target
\* and none for any other element.
C1_IndexOfDistinctTargets ==
  (last = "build" /\ PairwiseDistinct) =>
    /\ md.status = "built" /\ md.panic = NoPanic
    /\ \A i \in 0..(Len(cs.Targets) - 1) :
         /\ At(cs.Targets, i).Element \in DOMAIN md.elementToTarget
         /\ md.elementToTarget[At(cs.Targets, i).Element] = i
    /\ DOMAIN md.elementToTarget = TargetElements
    /\ Cardinality(DOMAIN md.elementToTarget) = Len(cs.Targets)
    /\ md.InRollback = cs.InRollback

C1_Witness ==
  /\ last = "build" /\ PairwiseDistinct /\ Len(cs.Targets) = 2
  /\ md.status = "built"
  /\ md.elementToTarget[At(cs.Targets, 1).Element] = 1

\* C2: on a CurrentState in which two targets, adjacent or not, reference
\* the same element makeTargetsWithElementMap panics with an assertion
\* failure and returns no index.
C2_DuplicateTargetsPanic ==
  (last = "build" /\ ~PairwiseDistinct) =>
    /\ md.status = "panicked"
    /\ md.panic.class = "AssertionFailed"
    /\ md.panic.msg = "duplicate targets"
    /\ md.elementToTarget = EmptyMap

\* The only duplicate is between the first and the third target.
C2_Witness ==
  /\ last = "build" /\ Len(cs.Targets) = 3
  /\ cs.Targets[1].Element = cs.Targets[3].Element
  /\ cs.Targets[2].Element # cs.Targets[1].Element
  /\ md.status = "panicked"

----------------------------------------------------------------------------
(* Properties of the builders.                                             *)

Returns(name) == last = "call" /\ ret.fn = name /\ ret.panic = NoPanic

EventFns == {"newLogEventBase", "newLogEventOp"}

\* C7: newLogEventBase and newLogEventOp, called with an element that has
\* no entry in elementToTarget, panic with an assertion failure naming the
\* element and build no event.
C7_MissingElementPanics ==
  (last = "call" /\ ret.fn \in EventFns /\ ~Present(ret.arg)) =>
    /\ ret.panic = AssertionFailed("could not find element in target state", ret.arg)
    /\ ret.value = NoValue
    /\ SourceHeap(heap) = heap

\* An element without target is looked up in an index that has targets.
C7_Witness ==
  /\ last = "call" /\ ret.fn = "newLogEventOp" /\ ~Present(ret.arg)
  /\ Len(cs.Targets) > 0
  /\ ret.panic.class = "AssertionFailed"

\* C8, as stated: statementForDropJob called with an element absent from
\* the index fails fatally instead of returning a StatementForDropJob, and
\* so never returns a record built from the target at position 0.  (Any
\* panic counts as the fatal failure here: on an empty Targets the call ends
\* in a runtime index-out-of-range panic, not in an assertion failure.)
C8_DropJobMissingElementPanics ==
  (last = "call" /\ ret.fn = "statementForDropJob" /\ ~Present(ret.arg)) =>
    /\ ret.panic # NoPanic
    /\ ret.value = NoValue

\* The storage an event refers to, and what it holds.
EventBaseCells(b) == {b.TargetMetadata, b.Authorization}

EventCells(v) ==
  IF v.kind = "EventBase" THEN EventBaseCells(v)
  ELSE IF v.kind = "LogEvent" THEN EventBaseCells(v.EventBase) \cup {v.Element}
  ELSE {}

EventView(v, h) == [a \in EventCells(v) |-> h[a]]

BaseOf(v) == IF v.kind = "LogEvent" THEN v.EventBase ELSE v

\* At the return of an event its records equal those of the element's
\* target and of the session, and are kept in storage of their own.
C9_CopiesAtReturn ==
  (last = "call" /\ ret.fn \in EventFns /\ ret.panic = NoPanic) =>
    LET t == At(cs.Targets, PositionOf(ret.arg))
        b == BaseOf(ret.value)
    IN  /\ heap[b.TargetMetadata] = heap[t.Metadata]
        /\ heap[b.Authorization] = heap[AuthAddr]
        /\ ret.fn = "newLogEventOp" => heap[ret.value.Element] = heap[ElemAddr(ret.arg)]
        /\ \A a \in EventCells(ret.value) : ~IsSourceAddr(a)
        /\ Cardinality(EventCells(ret.value)) = IF ret.fn = "newLogEventOp" THEN 3 ELSE 2

\* A write to the TargetState leaves the event returned before unchanged.
C9_MutationKeepsEvent ==
  (last' = "mutate" /\ ret.fn \in EventFns /\ ret.panic = NoPanic) =>
    /\ ret' = ret
    /\ EventView(ret.value, heap') = EventView(ret.value, heap)

\* C9: the TargetMetadata and Authorization of a returned event (and the
\* Element of a LogEvent) equal the index's records at the time of the call
\* and are independent copies: no later write to the target's metadata, the
\* element or the authorization changes an event already returned.
C9_EventsAreIndependentCopies ==
  []C9_CopiesAtReturn /\ [][C9_MutationKeepsEvent]_vars

\* A LogEvent was returned, and the metadata, the authorization and the
\* element it was copied from have all been written since.
C9_Witness ==
  /\ last = "mutate" /\ ret.fn = "newLogEventOp" /\ ret.panic = NoPanic
  /\ heap[ret.value.EventBase.TargetMetadata]
       # heap[At(cs.Targets, PositionOf(ret.arg)).Metadata]
  /\ heap[ret.value.EventBase.Authorization] # heap[AuthAddr]
  /\ heap[ret.value.Element] # heap[ElemAddr(ret.arg)]

\* C10: for an element of the index every builder reads the element's own
\* target: Statement and StatementTag are those of the statement numbered
\* by that target's StatementID, TargetStatus is that target's status, and
\* the drop-job record carries that StatementID and the plan's InRollback.
C10_BuildersReadOwnTarget ==
  (last = "call" /\ ret.panic = NoPanic /\ Present(ret.arg)) =>
    LET t == At(cs.Targets, PositionOf(ret.arg))
        sid == heap[t.Metadata].StatementID
        stmt == At(Statements, sid)
    IN  /\ ret.fn \in EventFns =>
             /\ BaseOf(ret.value).Statement = stmt.RedactedStatement
             /\ BaseOf(ret.value).StatementTag = stmt.StatementTag
        /\ ret.fn = "newLogEventOp" =>
             /\ ret.value.kind = "LogEvent"
             /\ ret.value.TargetStatus = t.TargetStatus
        /\ ret.fn = "newLogEventBase" => ret.value.kind = "EventBase"
        /\ ret.fn = "statementForDropJob" =>
             /\ ret.value.kind = "StatementForDropJob"
             /\ ret.value.StatementID = sid
             /\ ret.value.Rollback = cs.InRollback

\* The element's target is the second one and differs from the first in
\* statement and status.
C10_Witness ==
  /\ Returns("newLogEventOp") /\ Present(ret.arg)
  /\ PositionOf(ret.arg) = 1
  /\ heap[MetaAddr(1)].StatementID # heap[MetaAddr(0)].StatementID
  /\ ret.value.TargetStatus # At(cs.Targets, 0).TargetStatus

----------------------------------------------------------------------------
(* Properties of makeOpsFunc, of the opsFunc it returns and of checkOpFunc. *)

\* The categories among the interfaces a candidate's only result implements.
CategoriesOf(fn) == fn.out[1].impl \cap Categories

\* A function of one of the two shapes returning one pointer that implements Op.
WellFormed(fn) ==
  /\ fn.kind = "func"
  /\ fn.in \in {<<"el">>, <<"el", "md">>}
  /\ Len(fn.out) = 1 /\ fn.out[1].ptr /\ "Op" \in fn.out[1].impl

Uncategorized(fn) == WellFormed(fn) /\ CategoriesOf(fn) = {}

\* The category names in the order of the switch, and the scop.Type of each.
TypeOfCategory(c) ==
  CASE c = "MutationOp" -> "MutationType"
    [] c = "ValidationOp" -> "ValidationType"
    [] c = "BackfillOp" -> "BackfillType"

\* The type a well-formed function with a category resolves to.
ResolvedType(fn) ==
  LET cs3 == <<"MutationOp", "ValidationOp", "BackfillOp">>
      k == CHOOSE i \in 1..3 : cs3[i] \in CategoriesOf(fn) /\ \A j \in 1..(i - 1) : cs3[j] \notin CategoriesOf(fn)
  IN  TypeOfCategory(cs3[k])

Valid(fn) == WellFormed(fn) /\ CategoriesOf(fn) # {}

\* The positions of fns, in order, whose function returns an operation for e.
RECURSIVE Producing(_, _)
Producing(k, e) ==
  IF k = 0 THEN <<>>
  ELSE IF e \in fns[k].nilOn THEN Producing(k - 1, e)
       ELSE Append(Producing(k - 1, e), k)

\* C3: dispatching calls every function of the group once, in registration
\* order, and returns the non-nil results in the registration order of the
\* functions that made them; a function returning nil adds nothing and
\* neither stops nor reorders the others.
C3_DispatchKeepsRegistrationOrder ==
  out.status = "returned" =>
    LET made == Producing(Len(fns), out.element)
    IN  /\ Len(out.calls) = Len(fns)
        /\ \A k \in 1..Len(fns) :
             /\ out.calls[k].fn = k
             /\ out.calls[k].args[1] = out.element
             /\ Len(out.calls[k].args) = Len(fns[k].in)
        /\ Len(out.ops) = Len(made)
        /\ \A j \in 1..Len(made) :
             /\ ~out.ops[j].nil
             /\ out.ops[j].madeBy = fns[made[j]]
             /\ out.ops[j].element = out.element

\* [f1, f2, f3] of three different functions where only f2 returns nil.
C3_Witness ==
  /\ out.status = "returned" /\ Len(fns) = 3
  /\ out.element \in fns[2].nilOn
  /\ out.element \notin fns[1].nilOn /\ out.element \notin fns[3].nilOn
  /\ fns[1] # fns[3]
  /\ out.ops = <<FnCall(fns[1], <<out.element>>), FnCall(fns[3], <<out.element, "md">>)>>

\* C4: on a non-empty list of individually valid functions makeOpsFunc
\* succeeds only if all resolve to one category, and then reports it, the
\* category of the first; a function at a later position that resolves to
\* another category than the first makes it return an error and no group,
\* whatever the functions between them resolve to.
C4_GroupHasOneCategory ==
  (group.status # "none" /\ Len(fns) > 0 /\ \A k \in 1..Len(fns) : Valid(fns[k])) =>
    LET agree == \A k \in 1..Len(fns) : ResolvedType(fns[k]) = ResolvedType(fns[1])
    IN  /\ group.status = "returned"
        /\ agree => /\ group.err = NoError
                    /\ group.typ = ResolvedType(fns[1])
                    /\ group.opsFunc = OpsFuncOf(fns)
        /\ ~agree => /\ group.err = Errorf("conflicting operation types")
                     /\ group.opsFunc = NilOpsFunc
                     /\ group.typ = ZeroType

\* The third function conflicts with the first, the second does not.
C4_Witness ==
  /\ group.status = "returned" /\ Len(fns) = 3
  /\ \A k \in 1..3 : Valid(fns[k])
  /\ ResolvedType(fns[2]) = ResolvedType(fns[1])
  /\ ResolvedType(fns[3]) # ResolvedType(fns[1])
  /\ group.err = Errorf("conflicting operation types")

Fails(k) ==
  \/ ~Valid(fns[k])
  \/ k > 1 /\ Valid(fns[k - 1]) /\ ResolvedType(fns[k]) # ResolvedType(fns[k - 1])

\* C6, as stated: if any function of the list is uncategorized, the
\* compilation fails with the "does not conform to any known type" error,
\* returned as an error value and not raised as a panic, also when the
\* other functions are valid and precede it.  (Stated here for the lists
\* whose other functions are all individually valid.)
C6_UncategorizedAnywhere ==
  (/\ group.status # "none"
   /\ \E k \in 1..Len(fns) :
        Uncategorized(fns[k]) /\ \A j \in 1..Len(fns) : j # k => Valid(fns[j])) =>
    /\ group.status = "returned"
    /\ group.err = AssertionFailedf("does not conform to any known type")

\* C6, amended: if the first function of the list to fail a check is an
\* uncategorized one (all before it are valid and of one category), the
\* compilation fails with the "does not conform to any known type" error,
\* returned as an error value with no group and not raised as a panic.
C6_UncategorizedFirstToFail ==
  (group.status # "none" /\
     \E k \in 1..Len(fns) : Uncategorized(fns[k]) /\ \A j \in 1..(k - 1) : ~Fails(j)) =>
    /\ group.status = "returned" /\ group.panic = NoPanic
    /\ group.err = AssertionFailedf("does not conform to any known type")
    /\ group.opsFunc = NilOpsFunc
    /\ group.typ = ZeroType

\* Two valid mutation functions precede the uncategorized one.
C6_Witness ==
  /\ group.status = "returned" /\ Len(fns) = 3
  /\ Valid(fns[1]) /\ Valid(fns[2]) /\ ~Fails(2)
  /\ Uncategorized(fns[3])
  /\ group.err.class = "AssertionFailed"

\* C11, as stated: checkOpFunc rejects with a registration error every
\* candidate that is not a function, whose parameters are neither (element)
\* nor (element, index), or that does not return exactly one pointer that
\* implements Op.
C11_MalformedCandidatesRejected ==
  (checked.status = "done" /\ ~WellFormed(cand)) =>
    /\ checked.panic = NoPanic
    /\ checked.err.class = "error"
    /\ checked.typ = ZeroType

\* The same for the candidates reflect can take the type of, that is all
\* but the nil interface value: each malformed one is rejected with the
\* error of the first check it fails.
C11_TypedMalformedCandidatesRejected ==
  (checked.status = "done" /\ ~WellFormed(cand) /\ cand.kind # "nil") =>
    /\ checked.panic = NoPanic
    /\ checked.typ = ZeroType
    /\ checked.err =
         IF cand.kind # "func" THEN Errorf("expected func")
         ELSE IF cand.in \notin {<<"el">>, <<"el", "md">>}
         THEN Errorf("expected a func with one argument of the element type")
         ELSE Errorf("expected one return value of a pointer type")

\* The positions of fns at which a check fails, given that none failed before.
FailingPositions == {k \in 1..Len(fns) : Fails(k)}
FirstFailing == CHOOSE k \in FailingPositions : \A j \in FailingPositions : k <= j

\* What the first check that fns[k] fails yields, for a k with no failure
\* before it: the checks of one function come in the order candidate kind,
\* parameters, results, category, agreement with the group.
FailureAt(k) ==
  LET fn == fns[k]
  IN  IF fn.kind = "nil" THEN [class |-> "panic"]
      ELSE IF fn.kind # "func" THEN Errorf("expected func")
      ELSE IF fn.in \notin {<<"el">>, <<"el", "md">>}
      THEN Errorf("expected a func with one argument of the element type")
      ELSE IF ~(Len(fn.out) = 1 /\ fn.out[1].ptr /\ "Op" \in fn.out[1].impl)
      THEN Errorf("expected one return value of a pointer type")
      ELSE IF CategoriesOf(fn) = {}
      THEN AssertionFailedf("does not conform to any known type")
      ELSE Errorf("conflicting operation types")

\* C13: makeOpsFunc examines the functions in registration order and stops
\* at the first that fails a check of its own or disagrees with the group
\* category: the outcome is that function's failure, whatever comes after
\* it, and then no group is returned (nil opsFunc, zero type); a group is
\* returned only when no function fails, and then of all the functions.
C13_FailFastAllOrNothing ==
  group.status # "none" =>
    IF FailingPositions = {}
    THEN /\ group.status = "returned" /\ group.err = NoError
         /\ group.opsFunc = OpsFuncOf(fns)
    ELSE /\ group.opsFunc = NilOpsFunc
         /\ group.typ = ZeroType
         /\ IF FailureAt(FirstFailing).class = "panic"
            THEN group.status = "panicked" /\ group.err = NoError
            ELSE /\ group.status = "returned"
                 /\ group.err = FailureAt(FirstFailing)

\* A category conflict at the second position, a malformed signature at the
\* third: the conflict is what is reported.
C13_Witness ==
  /\ group.status = "returned" /\ Len(fns) = 3
  /\ Valid(fns[1]) /\ Valid(fns[2])
  /\ ResolvedType(fns[2]) # ResolvedType(fns[1])
  /\ fns[3].kind = "func" /\ ~WellFormed(fns[3])
  /\ group.err = Errorf("conflicting operation types")
  /\ group.opsFunc.nil

\* What one dispatch on element e with the index m returns when nothing
\* else runs: the results of the functions of fns that produce one, in order.
IsolatedOps(e, m) ==
  LET made == Producing(Len(fns), e)
  IN  [j \in 1..Len(made) |->
         FnCall(fns[made[j]], IF Len(fns[made[j]].in) = 1 THEN <<e>> ELSE <<e, m>>)]

\* A call that has returned has returned what an isolated dispatch returns.
C12_ReturnsIsolatedResult ==
  \A p \in Invocations :
    inv[p].pc = "done" => inv[p].ret = IsolatedOps(inv[p].element, inv[p].md)

\* A step of a dispatch leaves the group and its functions as they are, and
\* changes the call of one invocation only, never the index it was given.
C12_DispatchFrame ==
  group.status = "returned" =>
    /\ group' = group /\ fns' = fns
    /\ Cardinality({p \in Invocations : inv'[p] # inv[p]}) <= 1
    /\ \A p \in Invocations :
         (inv[p].pc = "running" /\ inv'[p].pc # "idle") =>
           (inv'[p].md = inv[p].md /\ inv'[p].element = inv[p].element)

\* C12: dispatching changes neither the compiled group nor the index it is
\* given, so dispatches on one group, interleaved in any order by planning
\* invocations with an index each, return for every (element, index) what a
\* single isolated dispatch returns.
C12_ConcurrentDispatchIsIsolated ==
  []C12_ReturnsIsolatedResult /\ [][C12_DispatchFrame]_vars

\* One invocation has its result while another, on another element, is in
\* the middle of the loop over the same two functions.
C12_Witness ==
  /\ Len(fns) = 2 /\ fns[1] # fns[2]
  /\ inv[1].pc = "done" /\ inv[2].pc = "running" /\ inv[2].i = 2
  /\ inv[1].element # inv[2].element
  /\ Len(inv[1].ret) = 1 /\ Len(inv[2].ret) = 1

====
